---- MODULE Spec2Model ----
(***************************************************************************)
(* The line-delimited JSON-RPC dispatch loops of the four MCP servers of   *)
(* src/mcp: bing_browser_search, baidu_browser_search, web_browser and     *)
(* python_executor.  One behaviour is one server process reading lines     *)
(* from stdin until end of input.  A step is one iteration of the loop.    *)
(***************************************************************************)
EXTENDS Integers, Sequences, FiniteSets, TLC

\* ------------------------------------------------------------------ bounds
\* Request ids are 1..MaxId; a process reads at most MaxLines lines.
MaxId == 2
MaxLines == 3

\* --------------------------------------------------------- program constants
ParseError == -32700
MethodNotFound == -32601
InvalidParams == -32602
InternalError == -32603

\* Python's None as the value of request.get("id") when the key is missing.
NoId == 0

Servers == {"bing", "baidu", "web", "pyexec"}

\* A key that the JSON object does not hold.
Absent == "<absent>"

Ids == 1..MaxId

\* ------------------------------------------------------------- the registry
ToolNames(s) ==
    CASE s = "bing" -> {"bing_browser_search"}
      [] s = "baidu" -> {"baidu_browser_search"}
      [] s = "web" -> {"visit_page"}
      [] s = "pyexec" -> {"execute_python", "install_package", "list_packages",
                          "run_python_file", "create_python_file"}

\* The `required` set of a tool's inputSchema (empty for an unregistered name).
Required(s, name) ==
    CASE s = "bing" /\ name = "bing_browser_search" -> {"query"}
      [] s = "baidu" /\ name = "baidu_browser_search" -> {"query"}
      [] s = "web" /\ name = "visit_page" -> {"url"}
      [] s = "pyexec" /\ name = "execute_python" -> {"code"}
      [] s = "pyexec" /\ name = "install_package" -> {"package"}
      [] s = "pyexec" /\ name = "run_python_file" -> {"filepath"}
      [] s = "pyexec" /\ name = "create_python_file" -> {"filepath", "code"}
      [] OTHER -> {}

\* ------------------------------------------------------------- input lines
\* What stdin.readline() can return, other than "" (end of input):
\*   blank      only whitespace
\*   malformed  not blank and not JSON
\*   nonobject  JSON, but a number, string, array or null
\*   object     a JSON object; its keys as the dispatchers read them
\* In an object, params and arguments are "absent", "nonmap" (present but not
\* a mapping) or "map"; vals gives each required parameter of the named tool
\* as "absent", "falsy" ("" / 0 / null / []) or "value".
ArgStates == {"absent", "falsy", "value"}

Methods == {"initialize", "tools/list", "tools/call", "notifications/initialized"}

Line(kind, id, method, params, name, arguments, vals) ==
    [kind |-> kind, id |-> id, method |-> method, params |-> params,
     name |-> name, arguments |-> arguments, vals |-> vals]

BlankLine == Line("blank", NoId, Absent, "absent", Absent, "absent", <<>>)
MalformedLine == Line("malformed", NoId, Absent, "absent", Absent, "absent", <<>>)
NonObjectLine == Line("nonobject", NoId, Absent, "absent", Absent, "absent", <<>>)

PlainRequests ==
    { Line("object", id, m, "absent", Absent, "absent", <<>>) :
        id \in Ids \cup {NoId},
        m \in (Methods \ {"tools/call"}) \cup {"resources/list", Absent} }

CallRequests(s) ==
    LET names == ToolNames(s) \cup {"no_such_tool", Absent}
    IN  { Line("object", id, "tools/call", p, Absent, "absent", <<>>) :
            id \in Ids \cup {NoId}, p \in {"absent", "nonmap"} }
        \cup
        { Line("object", id, "tools/call", "map", n, a, <<>>) :
            id \in Ids \cup {NoId}, n \in names, a \in {"absent", "nonmap"} }
        \cup
        UNION { { Line("object", id, "tools/call", "map", n, "map", v) :
                    id \in Ids \cup {NoId}, v \in [Required(s, n) -> ArgStates] } :
                n \in names }

ObjectLines(s) == PlainRequests \cup CallRequests(s)

Lines(s) == {BlankLine, MalformedLine, NonObjectLine} \cup ObjectLines(s)

\* request.get(key, default) on the keys the dispatchers read.
GetMethod(request, default) ==
    IF request.method = Absent THEN default ELSE request.method

GetName(request, default) ==
    IF request.params = "absent" \/ request.name = Absent THEN default ELSE request.name

\* arguments.get(key, default): "absent" stands for the default, which every
\* caller chooses falsy ("" or None).
GetArg(request, key) ==
    IF request.arguments = "map" /\ key \in DOMAIN request.vals
    THEN request.vals[key] ELSE "absent"

\* The mutant of Truthy that tests `key in arguments` instead of the value.
IsPresent(v) == v # "absent"

Truthy(v) == v = "value"

\* ----------------------------------------------------------------- replies
Reply(id, member, code, payload) ==
    [id |-> id, member |-> member, code |-> code, payload |-> payload]

\* What a handler hands back to the loop: a response (or None), an exception
\* that left it, the tool handlers it invoked, the stderr lines it printed and
\* whether a tool handler caught an exception of its own.
Return(resp) ==
    [raise |-> FALSE, resp |-> <<resp>>, called |-> <<>>, diag |-> 0, inner |-> FALSE]
ReturnNone ==
    [raise |-> FALSE, resp |-> <<>>, called |-> <<>>, diag |-> 0, inner |-> FALSE]
Raise ==
    [raise |-> TRUE, resp |-> <<>>, called |-> <<>>, diag |-> 0, inner |-> FALSE]

\* The collaborators of a tool handler (network, browser, subprocess, file
\* system) either work or raise.
HandlerOutcomes == {"ok", "fails"}

\* ------------------------------------------------------------ tool handlers
\* A tool handler's way back: the text it returns, or an exception that
\* leaves it (raise), and whether it caught an exception of its own (inner).
ToolResult(raise, text, inner) ==
    [raise |-> raise, text |-> text, inner |-> inner]

\* The mutant of a handler that lost its own try/except.
Unguarded(outcome) ==
    IF outcome = "fails" THEN ToolResult(TRUE, "none", FALSE)
    ELSE ToolResult(FALSE, "text", FALSE)

\* search + format_results: the whole body of search is in try/except
\* Exception, which returns the one-element error list; format_results
\* turns that list into its message.
BingSearch(outcome) ==
    IF outcome = "fails" THEN ToolResult(FALSE, "error_text", TRUE)
    ELSE ToolResult(FALSE, "text", FALSE)

BaiduSearch(outcome) ==
    IF outcome = "fails" THEN ToolResult(FALSE, "error_text", TRUE)
    ELSE ToolResult(FALSE, "text", FALSE)

\* visit_page: both try blocks return an error string.
VisitPage(outcome) ==
    IF outcome = "fails" THEN ToolResult(FALSE, "error_text", TRUE)
    ELSE ToolResult(FALSE, "text", FALSE)

\* The python_executor tools: each body is try/except Exception, returning
\* a content mapping with isError set.
ExecutePython(outcome) ==
    IF outcome = "fails" THEN ToolResult(FALSE, "isError", TRUE)
    ELSE ToolResult(FALSE, "text", FALSE)

InstallPackage(outcome) ==
    IF outcome = "fails" THEN ToolResult(FALSE, "isError", TRUE)
    ELSE ToolResult(FALSE, "text", FALSE)

ListPackages(outcome) ==
    IF outcome = "fails" THEN ToolResult(FALSE, "isError", TRUE)
    ELSE ToolResult(FALSE, "text", FALSE)

RunPythonFile(outcome) ==
    IF outcome = "fails" THEN ToolResult(FALSE, "isError", TRUE)
    ELSE ToolResult(FALSE, "text", FALSE)

CreatePythonFile(outcome) ==
    IF outcome = "fails" THEN ToolResult(FALSE, "isError", TRUE)
    ELSE ToolResult(FALSE, "text", FALSE)

\* The caller's side of a tool invocation: the handler ran (called), after
\* `diag` lines on stderr; its text goes into a result envelope, its
\* exception goes on up.
Invoked(rid, tool, h, diag) ==
    IF h.raise
    THEN [raise |-> TRUE, resp |-> <<>>, called |-> <<tool>>, diag |-> diag,
          inner |-> FALSE]
    ELSE [raise |-> FALSE, resp |-> <<Reply(rid, "result", 0, h.text)>>,
          called |-> <<tool>>, diag |-> diag, inner |-> h.inner]

\* ---------------------------------------------------------- handle_request
BingHandleRequest(request, outcome) ==
    LET method == GetMethod(request, "")
        rid == request.id
    IN  IF method = "initialize" THEN Return(Reply(rid, "result", 0, "serverInfo"))
        ELSE IF method = "tools/list" THEN Return(Reply(rid, "result", 0, "tools"))
        ELSE IF method = "tools/call" THEN
            IF request.params = "nonmap" THEN Raise
            ELSE IF GetName(request, "") = "bing_browser_search" THEN
                IF request.arguments = "nonmap" THEN Raise
                ELSE IF ~Truthy(GetArg(request, "query"))
                THEN Return(Reply(rid, "error", InvalidParams, "missing_parameter"))
                ELSE Invoked(rid, "bing_browser_search", BingSearch(outcome), 1)
            ELSE Return(Reply(rid, "error", MethodNotFound, "unknown_tool"))
        ELSE IF method = "notifications/initialized" THEN ReturnNone
        ELSE Return(Reply(rid, "error", MethodNotFound, "unknown_method"))

BaiduHandleRequest(request, outcome) ==
    LET method == GetMethod(request, "")
        request_id == request.id
    IN  IF method = "initialize"
        THEN Return(Reply(request_id, "result", 0, "serverInfo"))
        ELSE IF method = "tools/list"
        THEN Return(Reply(request_id, "result", 0, "tools"))
        ELSE IF method = "tools/call" THEN
            IF request.params = "nonmap" THEN Raise
            ELSE IF GetName(request, "") = "baidu_browser_search" THEN
                IF request.arguments = "nonmap" THEN Raise
                ELSE IF ~Truthy(GetArg(request, "query"))
                THEN Return(Reply(request_id, "error", InvalidParams, "missing_parameter"))
                ELSE Invoked(request_id, "baidu_browser_search", BaiduSearch(outcome), 1)
            ELSE Return(Reply(request_id, "error", MethodNotFound, "unknown_tool"))
        ELSE IF method = "notifications/initialized" THEN ReturnNone
        ELSE Return(Reply(request_id, "error", MethodNotFound, "unknown_method"))

WebHandleRequest(request, outcome) ==
    LET method == GetMethod(request, "")
        request_id == request.id
    IN  IF method = "initialize"
        THEN Return(Reply(request_id, "result", 0, "serverInfo"))
        ELSE IF method = "tools/list"
        THEN Return(Reply(request_id, "result", 0, "tools"))
        ELSE IF method = "tools/call" THEN
            IF request.params = "nonmap" THEN Raise
            ELSE IF GetName(request, "") = "visit_page" THEN
                IF request.arguments = "nonmap" THEN Raise
                ELSE IF ~Truthy(GetArg(request, "url"))
                THEN Return(Reply(request_id, "error", InvalidParams, "missing_parameter"))
                ELSE Invoked(request_id, "visit_page", VisitPage(outcome), 1)
            ELSE Return(Reply(request_id, "error", MethodNotFound, "unknown_tool"))
        ELSE IF method = "notifications/initialized" THEN ReturnNone
        ELSE Return(Reply(request_id, "error", MethodNotFound, "unknown_method"))

\* python_executor: handle_call_tool and handle_message return the value
\* that run() puts under "result"; they know no request id (NoId here, run()
\* sets it).  Every handler reads its arguments with arguments.get(key,
\* default), list_packages reads none.
HandleCallTool(name, request, outcome) ==
    IF name \in {"execute_python", "install_package", "run_python_file",
                 "create_python_file"} /\ request.arguments = "nonmap"
    THEN Raise
    ELSE IF name = "execute_python"
    THEN Invoked(NoId, name, ExecutePython(outcome), 0)
    ELSE IF name = "install_package"
    THEN Invoked(NoId, name, InstallPackage(outcome), 0)
    ELSE IF name = "list_packages"
    THEN Invoked(NoId, name, ListPackages(outcome), 0)
    ELSE IF name = "run_python_file"
    THEN Invoked(NoId, name, RunPythonFile(outcome), 0)
    ELSE IF name = "create_python_file"
    THEN Invoked(NoId, name, CreatePythonFile(outcome), 0)
    ELSE Return(Reply(NoId, "result", 0, "unknown_tool_isError"))

\* The mutant of HandleMessage that misspells "tools/list".
HandleMessageNoList(message, outcome) ==
    LET method == GetMethod(message, "None")
    IN  IF method = "tool/list" THEN Return(Reply(NoId, "result", 0, "tools"))
        ELSE IF method = "tools/call" THEN
            IF message.params = "nonmap" THEN Raise
            ELSE HandleCallTool(GetName(message, "None"), message, outcome)
        ELSE IF method = "initialize"
        THEN Return(Reply(NoId, "result", 0, "serverInfo"))
        ELSE Return(Reply(NoId, "result", 0, "unknown_method_error"))

HandleMessage(message, outcome) ==
    LET method == GetMethod(message, "None")
    IN  IF method = "tools/list" THEN Return(Reply(NoId, "result", 0, "tools"))
        ELSE IF method = "tools/call" THEN
            IF message.params = "nonmap" THEN Raise
            ELSE HandleCallTool(GetName(message, "None"), message, outcome)
        ELSE IF method = "initialize"
        THEN Return(Reply(NoId, "result", 0, "serverInfo"))
        ELSE Return(Reply(NoId, "result", 0, "unknown_method_error"))

\* ---------------------------------------------------------------- the loops
\* One iteration of a dispatch loop on a line that was read: the replies it
\* prints on stdout, the tool handlers it invoked, the lines it prints on
\* stderr, how an exception ended it (threw), the loop's local `message`
\* afterwards and whether the loop goes on.
\*   threw: "none"; "parse" (the JSONDecodeError clause); "handler" (caught
\*   inside the tool handler); "loop" (the loop's except Exception clause);
\*   "fatal" (raised inside that clause, so out of the loop)
Step(out, called, diag, threw, message, pc) ==
    [out |-> out, called |-> called, diag |-> diag, threw |-> threw,
     message |-> message, pc |-> pc]

\* The local `message` of python_executor's run() before the first json.loads
\* that succeeds.
Unset == [kind |-> "unset"]

\* The mutant of Handled whose loop has no `except Exception` clause: the
\* exception leaves run_stdio.
HandledNoExcept(r, message) ==
    IF r.raise
    THEN Step(<<>>, r.called, r.diag, "fatal", message, "crashed")
    ELSE Step(r.resp, r.called, r.diag, IF r.inner THEN "handler" ELSE "none",
              message, "running")

Handled(r, message) ==
    IF r.raise
    THEN Step(<<Reply(NoId, "error", InternalError, "internal")>>, r.called, r.diag,
              "loop", message, "running")
    ELSE Step(r.resp, r.called, r.diag, IF r.inner THEN "handler" ELSE "none",
              message, "running")

BingRunStdio(message, l, outcome) ==
    IF l.kind = "blank" THEN Step(<<>>, <<>>, 0, "none", message, "running")
    ELSE IF l.kind = "malformed"
    THEN Step(<<Reply(NoId, "error", ParseError, "parse")>>, <<>>, 0, "parse",
              message, "running")
    ELSE IF l.kind = "nonobject" THEN Handled(Raise, message)
    ELSE Handled(BingHandleRequest(l, outcome), message)

BaiduRunStdio(message, l, outcome) ==
    IF l.kind = "blank" THEN Step(<<>>, <<>>, 0, "none", message, "running")
    ELSE IF l.kind = "malformed"
    THEN Step(<<Reply(NoId, "error", ParseError, "parse")>>, <<>>, 0, "parse",
              message, "running")
    ELSE IF l.kind = "nonobject" THEN Handled(Raise, message)
    ELSE Handled(BaiduHandleRequest(l, outcome), message)

\* web_browser: json.loads is inside the one try, so a JSONDecodeError lands
\* in except Exception.
WebRunStdio(message, l, outcome) ==
    IF l.kind = "blank" THEN Step(<<>>, <<>>, 0, "none", message, "running")
    ELSE IF l.kind = "malformed" THEN Handled(Raise, message)
    ELSE IF l.kind = "nonobject" THEN Handled(Raise, message)
    ELSE Handled(WebHandleRequest(l, outcome), message)

\* python_executor's except clause: message.get("id") if 'message' in
\* locals() else None.  `message` is whatever the last successful json.loads
\* bound, in this iteration or an earlier one; .get on a non-mapping raises
\* inside the clause and leaves the loop.
PyExcept(message, r) ==
    IF message = Unset
    THEN Step(<<Reply(NoId, "error", InternalError, "internal")>>, r.called, r.diag,
              "loop", message, "running")
    ELSE IF message.kind # "object"
    THEN Step(<<>>, r.called, r.diag, "fatal", message, "crashed")
    ELSE Step(<<Reply(message.id, "error", InternalError, "internal")>>, r.called,
              r.diag, "loop", message, "running")

\* python_executor: the line is not stripped; json.loads of a blank line
\* raises like that of a malformed one, before `message` is bound anew.
PyRun(message, l, outcome) ==
    IF l.kind \in {"blank", "malformed"} THEN PyExcept(message, Raise)
    ELSE IF l.kind = "nonobject" THEN PyExcept(l, Raise)
    ELSE LET r == HandleMessage(l, outcome)
         IN  IF r.raise THEN PyExcept(l, r)
             ELSE Step(<<[r.resp[1] EXCEPT !.id = l.id]>>, r.called, r.diag,
                       IF r.inner THEN "handler" ELSE "none", l, "running")

RunLoop(s, message, l, outcome) ==
    CASE s = "bing" -> BingRunStdio(message, l, outcome)
      [] s = "baidu" -> BaiduRunStdio(message, l, outcome)
      [] s = "web" -> WebRunStdio(message, l, outcome)
      [] s = "pyexec" -> PyRun(message, l, outcome)

\* ------------------------------------------------------ the search pipeline
\* Texts are numbers: 0 is the empty string (or a missing element), -1 a text
\* of whitespace or markup only, k > 0 a text with content.  A link k > 0 is
\* an absolute URL, -k a non-empty link without a host part, 0 no link.
\* A feed holds at most MaxItems items and a Baidu page as many result
\* elements; a Bing result page holds at most MaxLis containers.
MaxItems == 3
MaxLis == 2

\* The bounds of num_results, and its default.
MinCount == 1
MaxCount == 50
DefaultCount == 20

Min(a, b) == IF a < b THEN a ELSE b
Max(a, b) == IF a > b THEN a ELSE b

\* .strip(), re.sub(r"<[^>]+>", "", s) and unescape: what is left of a text.
Clean(t) == IF t > 0 THEN t ELSE 0

\* urlparse(link).netloc
Netloc(link) == IF link > 0 THEN link ELSE 0

\* The num_results argument of a tools/call: missing, an integer, or a value
\* int() cannot coerce ("abc", null).
NumInputs ==
    {[kind |-> "absent", val |-> 0], [kind |-> "junk", val |-> 0]}
    \cup { [kind |-> "int", val |-> v] : v \in {-5, 0, 2, 1000} }

\* arguments.get("num_results", 20)
GetNumResults(num) ==
    IF num.kind = "absent" THEN [kind |-> "int", val |-> DefaultCount] ELSE num

\* search: requested = int(num_results), 20 if that raises;
\* count = max(1, min(requested, 50)).
BingCount(num_results) ==
    LET requested == IF num_results.kind = "int" THEN num_results.val
                     ELSE DefaultCount
    IN  Max(MinCount, Min(requested, MaxCount))

Item(title, link, snippet, source, index) ==
    [title |-> title, link |-> link, snippet |-> snippet, source |-> source,
     index |-> index]

ErrorRecord(msg) == [error |-> msg]

\* A feed <item>: its title, link and description texts.
FeedItems(i) ==
    { [title |-> i, link |-> i, description |-> i],
      [title |-> i, link |-> -i, description |-> -1],
      [title |-> -1, link |-> i, description |-> i],
      [title |-> i, link |-> 0, description |-> i] }

RECURSIVE SeqsOver(_, _)
\* The sequences of length n whose i-th element is drawn from kinds[i].
SeqsOver(kinds, n) ==
    IF n = 0 THEN {<<>>}
    ELSE { Append(s, x) : s \in SeqsOver(kinds, n - 1), x \in kinds[n] }

\* What the RSS request can bring: an exception (network, timeout, HTTP
\* status), text that is no XML, XML without <channel>, or a channel.
RssResponses ==
    { [kind |-> "fails", items |-> <<>>], [kind |-> "unparsable", items |-> <<>>],
      [kind |-> "nochannel", items |-> <<>>] }
    \cup { [kind |-> "channel", items |-> f] :
             f \in UNION { SeqsOver([i \in 1..MaxItems |-> FeedItems(i)], n) :
                            n \in 0..MaxItems } }

RECURSIVE RssLoop(_, _, _, _)
\* The mutant of RssLoop that puts each new item in front (results.insert(0, ...)).
RssLoopInFront(items, i, results, max_results) ==
    IF i > Len(items) \/ Len(results) >= max_results THEN results
    ELSE LET title == Clean(items[i].title)
             link == items[i].link
             snippet == Clean(items[i].description)
             source == IF link # 0 THEN Netloc(link) ELSE 0
         IN  RssLoop(items, i + 1,
                     IF title # 0 /\ link # 0
                     THEN <<Item(title, link, snippet, source, Len(results) + 1)>>
                          \o results
                     ELSE results,
                     max_results)

RssLoop(items, i, results, max_results) ==
    IF i > Len(items) \/ Len(results) >= max_results THEN results
    ELSE LET title == Clean(items[i].title)
             link == items[i].link
             snippet == Clean(items[i].description)
             source == IF link # 0 THEN Netloc(link) ELSE 0
         IN  RssLoop(items, i + 1,
                     IF title # 0 /\ link # 0
                     THEN Append(results,
                                 Item(title, link, snippet, source, Len(results) + 1))
                     ELSE results,
                     max_results)

\* The mutant of ParseRss whose loop never breaks at max_results.
ParseRssNoLimit(xml, max_results) ==
    IF xml.kind \in {"unparsable", "nochannel"} THEN <<>>
    ELSE RssLoop(xml.items, 1, <<>>, Len(xml.items))

\* The mutant of ParseRss that lets ET.ParseError (and a missing channel)
\* out: search's except then returns the error list.
ParseRssRaising(xml, max_results) ==
    IF xml.kind \in {"unparsable", "nochannel"} THEN <<ErrorRecord("failed")>>
    ELSE RssLoop(xml.items, 1, <<>>, max_results)

ParseRss(xml, max_results) ==
    IF xml.kind \in {"unparsable", "nochannel"} THEN <<>>
    ELSE RssLoop(xml.items, 1, <<>>, max_results)

\* An <li class="b_algo"> of the result page: whether it holds an <h2><a>,
\* that element's text and href, the text of its first <p> and of its <cite>.
Containers(i) ==
    { [h2a |-> TRUE, title |-> i, href |-> i, p |-> i, cite |-> i],
      [h2a |-> FALSE, title |-> 0, href |-> 0, p |-> i, cite |-> 0],
      [h2a |-> TRUE, title |-> -1, href |-> i, p |-> 0, cite |-> i],
      [h2a |-> TRUE, title |-> i, href |-> 0, p |-> i, cite |-> 0] }

Pages == UNION { SeqsOver([i \in 1..MaxLis |-> Containers(i)], n) : n \in 0..MaxLis }

\* What the HTML request can bring: an exception, or a page; `marker` is
\* the spelling of the word captcha in the page, "" when it is not there.
HtmlResponses ==
    { [kind |-> "fails", marker |-> "", lis |-> <<>>] }
    \cup { [kind |-> "page", marker |-> m, lis |-> l] :
             m \in {"", "captcha", "CAPTCHA"}, l \in Pages }

\* The mutant of Lower that leaves the letters as they are.
Unlowered(word) == word

\* html.lower(), on the marker.
Lower(word) == IF word = "CAPTCHA" THEN "captcha" ELSE word

\* Not fetched.
NoResponse == [kind |-> "none"]

RECURSIVE Bs4Loop(_, _, _, _)
\* for i, li in enumerate(...): i counts the containers.
Bs4Loop(lis, i, results, max_results) ==
    IF i > Len(lis) \/ i - 1 >= max_results THEN results
    ELSE IF ~lis[i].h2a THEN Bs4Loop(lis, i + 1, results, max_results)
    ELSE LET title == Clean(lis[i].title)
             link == lis[i].href
             snippet == Clean(lis[i].p)
             source == Clean(lis[i].cite)
         IN  Bs4Loop(lis, i + 1,
                     IF title # 0 /\ link # 0
                     THEN Append(results,
                                 Item(title, link, snippet, source, Len(results) + 1))
                     ELSE results,
                     max_results)

ParseBs4(html, max_results) == Bs4Loop(html.lis, 1, <<>>, max_results)

RECURSIVE RegexLoop(_, _, _)
\* blocks[:max_results]; the title pattern needs <h2><a href="..."> with a
\* non-empty href; the title itself is not tested.
RegexLoop(blocks, i, results) ==
    IF i > Len(blocks) THEN results
    ELSE IF ~blocks[i].h2a \/ blocks[i].href = 0
    THEN RegexLoop(blocks, i + 1, results)
    ELSE RegexLoop(blocks, i + 1,
                   Append(results,
                          Item(Clean(blocks[i].title), blocks[i].href,
                               Clean(blocks[i].p), Clean(blocks[i].cite),
                               Len(results) + 1)))

ParseRegex(html, max_results) ==
    RegexLoop(SubSeq(html.lis, 1, Min(Len(html.lis), max_results)), 1, <<>>)

\* A request sent upstream or an extraction run, with the count it was given.
Call(op, n) == [op |-> op, n |-> n]

\* search: its results and, in order, the requests and parsers it ran.
Searched(results, calls) == [results |-> results, calls |-> calls]

\* The mutant of BingSearchResults without `if rss_results: return rss_results`.
BingSearchNoEarlyReturn(num_results, rss, html, BeautifulSoup) ==
    LET count == BingCount(num_results)
        get_rss == <<Call("get_rss", count)>>
        to_html == get_rss \o <<Call("parse_rss", count), Call("get_html", count)>>
    IN  IF rss.kind = "fails"
        THEN Searched(<<ErrorRecord("failed")>>, get_rss)
        ELSE IF html.kind = "fails"
        THEN Searched(<<ErrorRecord("failed")>>, to_html)
        ELSE IF Lower(html.marker) = "captcha"
        THEN Searched(<<ErrorRecord("captcha")>>, to_html)
        ELSE IF BeautifulSoup
        THEN Searched(ParseBs4(html, count),
                      to_html \o <<Call("parse_bs4", count)>>)
        ELSE Searched(ParseRegex(html, count),
                      to_html \o <<Call("parse_regex", count)>>)

\* The mutant of BingSearchResults that tries _parse_regex as well when
\* _parse_bs4 found nothing.
BingSearchRegexAfterBs4(num_results, rss, html, BeautifulSoup) ==
    LET count == BingCount(num_results)
        get_rss == <<Call("get_rss", count)>>
        to_rss == get_rss \o <<Call("parse_rss", count)>>
        to_html == to_rss \o <<Call("get_html", count)>>
        to_bs4 == to_html \o <<Call("parse_bs4", count)>>
    IN  IF rss.kind = "fails"
        THEN Searched(<<ErrorRecord("failed")>>, get_rss)
        ELSE LET rss_results == ParseRss(rss, count)
             IN  IF rss_results # <<>> THEN Searched(rss_results, to_rss)
                 ELSE IF html.kind = "fails"
                 THEN Searched(<<ErrorRecord("failed")>>, to_html)
                 ELSE IF Lower(html.marker) = "captcha"
                 THEN Searched(<<ErrorRecord("captcha")>>, to_html)
                 ELSE IF BeautifulSoup /\ ParseBs4(html, count) # <<>>
                 THEN Searched(ParseBs4(html, count), to_bs4)
                 ELSE Searched(ParseRegex(html, count),
                               (IF BeautifulSoup THEN to_bs4 ELSE to_html)
                               \o <<Call("parse_regex", count)>>)

\* BingSearchMCPServer.search; BeautifulSoup is None when bs4 is not installed.
BingSearchResults(num_results, rss, html, BeautifulSoup) ==
    LET count == BingCount(num_results)
        get_rss == <<Call("get_rss", count)>>
        to_rss == get_rss \o <<Call("parse_rss", count)>>
        to_html == to_rss \o <<Call("get_html", count)>>
    IN  IF rss.kind = "fails"
        THEN Searched(<<ErrorRecord("failed")>>, get_rss)
        ELSE LET rss_results == ParseRss(rss, count)
             IN  IF rss_results # <<>> THEN Searched(rss_results, to_rss)
                 ELSE IF html.kind = "fails"
                 THEN Searched(<<ErrorRecord("failed")>>, to_html)
                 ELSE IF Lower(html.marker) = "captcha"
                 THEN Searched(<<ErrorRecord("captcha")>>, to_html)
                 ELSE IF BeautifulSoup
                 THEN Searched(ParseBs4(html, count),
                               to_html \o <<Call("parse_bs4", count)>>)
                 ELSE Searched(ParseRegex(html, count),
                               to_html \o <<Call("parse_regex", count)>>)

\* A result element of the Baidu page: whether it holds a title anchor, that
\* anchor's text and href, the abstract text and the showurl text.
BaiduContainers(i) ==
    { [titleElement |-> TRUE, title |-> i, href |-> i, abstract |-> i, showurl |-> i],
      [titleElement |-> TRUE, title |-> i, href |-> i, abstract |-> i, showurl |-> 0],
      [titleElement |-> TRUE, title |-> i, href |-> i, abstract |-> -1, showurl |-> i],
      [titleElement |-> FALSE, title |-> 0, href |-> 0, abstract |-> i, showurl |-> 0],
      [titleElement |-> TRUE, title |-> -1, href |-> i, abstract |-> 0, showurl |-> 0] }

\* What the browser can bring: an exception when it is launched, when the
\* context or the page is created, when the page is loaded (navigation,
\* timeout), or the rendered page.
BaiduPages ==
    { [kind |-> k, els |-> <<>>] :
        k \in {"launch_fails", "context_fails", "goto_fails"} }
    \cup { [kind |-> "page", els |-> e] :
             e \in UNION { SeqsOver([i \in 1..MaxItems |-> BaiduContainers(i)], n) :
                            n \in 0..MaxItems } }

RECURSIVE EvaluateLoop(_, _, _, _)
\* for (let i = 0; i < Math.min(resultElements.length, maxResults); i++),
\* index: i + 1 (i is 1-based here).
EvaluateLoop(els, i, items, maxResults) ==
    IF i > Min(Len(els), maxResults) THEN items
    ELSE LET title == IF els[i].titleElement THEN Clean(els[i].title) ELSE 0
             link == IF els[i].titleElement THEN els[i].href ELSE 0
             snippet == Clean(els[i].abstract)
             source == Clean(els[i].showurl)
         IN  EvaluateLoop(els, i + 1,
                          IF title # 0 /\ link # 0
                          THEN Append(items, Item(title, link, snippet, source, i))
                          ELSE items,
                          maxResults)

\* BaiduBrowserSearchMCPServer.search: min(num_results, 50) goes into the URL
\* (a TypeError for a value that is no number), num_results itself into
\* page.evaluate; every exception becomes the error list.
BaiduSearchResults(num_results, page) ==
    IF page.kind \in {"launch_fails", "context_fails"}
    THEN Searched(<<ErrorRecord("failed")>>, <<>>)
    ELSE IF num_results.kind # "int" THEN Searched(<<ErrorRecord("failed")>>, <<>>)
    ELSE LET goto == <<Call("goto", Min(num_results.val, MaxCount))>>
         IN  IF page.kind = "goto_fails"
             THEN Searched(<<ErrorRecord("failed")>>, goto)
             ELSE Searched(EvaluateLoop(page.els, 1, <<>>, num_results.val),
                           goto \o <<Call("evaluate", num_results.val)>>)

\* ---------------------------------------------------------- format_results
\* The text is the list `lines` that "\n".join puts together.
RECURSIVE FormatLoop(_, _, _)
\* The mutant of FormatLoop that writes the source line without testing it.
FormatLoopAlwaysSource(results, i, lines) ==
    IF i > Len(results) THEN lines
    ELSE LET r == results[i]
             head == <<[k |-> "head", index |-> r.index, title |-> r.title],
                       [k |-> "link", v |-> r.link]>>
             source == <<[k |-> "source", v |-> r.source]>>
             snippet == IF r.snippet # 0 THEN <<[k |-> "snippet", v |-> r.snippet]>>
                        ELSE <<>>
         IN  FormatLoop(results, i + 1,
                        lines \o head \o source \o snippet \o <<[k |-> "blank"]>>)

FormatLoop(results, i, lines) ==
    IF i > Len(results) THEN lines
    ELSE LET r == results[i]
             head == <<[k |-> "head", index |-> r.index, title |-> r.title],
                       [k |-> "link", v |-> r.link]>>
             source == IF r.source # 0 THEN <<[k |-> "source", v |-> r.source]>>
                       ELSE <<>>
             snippet == IF r.snippet # 0 THEN <<[k |-> "snippet", v |-> r.snippet]>>
                        ELSE <<>>
         IN  FormatLoop(results, i + 1,
                        lines \o head \o source \o snippet \o <<[k |-> "blank"]>>)

\* The mutant of FormatResults without the `if not results` branch.
FormatNoEmptyBranch(results) ==
    IF results # <<>> /\ "error" \in DOMAIN results[1]
    THEN <<[k |-> "message", v |-> results[1].error]>>
    ELSE FormatLoop(results, 1, <<>>)

\* The same in both search servers.
FormatResults(results) ==
    IF results = <<>> THEN <<[k |-> "no_results"]>>
    ELSE IF "error" \in DOMAIN results[1]
    THEN <<[k |-> "message", v |-> results[1].error]>>
    ELSE FormatLoop(results, 1, <<>>)

\* ---------------------------------------------------------------- visit_page
\* The character budget of the returned page text, and the length below
\* which the readability extract is given up for the whole page.
MaxChars == 15000
MinUseful == 200

\* Lengths of a converted text that matter to those two numbers.
TextLengths == {0, MinUseful - 1, MinUseful, MaxChars, MaxChars + 1}

\* What the browser can bring to visit_page: an exception when it is
\* launched, an exception when the context is created, the cookies are
\* injected or the page is opened, an exception while the page is loaded or
\* converted, or the page: the
\* length of its title, of the text converted from the readability summary
\* and of the text converted from the whole markup.
VisitedPages ==
    { [kind |-> "launch_fails"], [kind |-> "context_fails"], [kind |-> "goto_fails"] }
    \cup { [kind |-> "page", title |-> t, summary |-> a, content |-> b] :
             t \in {0, 12}, a \in TextLengths, b \in TextLengths }

\* The mutant of VisitPageText that returns markdown_content without [:15000].
VisitPageUncut(page) ==
    IF page.kind \in {"launch_fails", "context_fails"} THEN [kind |-> "browser_error"]
    ELSE IF page.kind = "goto_fails" THEN [kind |-> "visit_error"]
    ELSE LET full == page.summary < MinUseful
             markdown_content == IF full THEN page.content ELSE page.summary
         IN  [kind |-> "page", title |-> page.title,
              body |-> markdown_content,
              converted |-> IF full THEN <<"summary", "content">> ELSE <<"summary">>]

\* The mutant of VisitPageText that tests len(markdown_content) <= 200.
VisitPageAtThreshold(page) ==
    IF page.kind \in {"launch_fails", "context_fails"} THEN [kind |-> "browser_error"]
    ELSE IF page.kind = "goto_fails" THEN [kind |-> "visit_error"]
    ELSE LET full == page.summary <= MinUseful
             markdown_content == IF full THEN page.content ELSE page.summary
         IN  [kind |-> "page", title |-> page.title,
              body |-> Min(markdown_content, MaxChars),
              converted |-> IF full THEN <<"summary", "content">> ELSE <<"summary">>]

\* visit_page: f"# {title}\n\n{markdown_content[:15000]}"
VisitPageText(page) ==
    IF page.kind \in {"launch_fails", "context_fails"} THEN [kind |-> "browser_error"]
    ELSE IF page.kind = "goto_fails" THEN [kind |-> "visit_error"]
    ELSE LET full == page.summary < MinUseful
             markdown_content == IF full THEN page.content ELSE page.summary
         IN  [kind |-> "page", title |-> page.title,
              body |-> Min(markdown_content, MaxChars),
              converted |-> IF full THEN <<"summary", "content">> ELSE <<"summary">>]

\* len() of the text visit_page returns for a page: "# ", the title, two
\* newlines, the body.
PageTextLen(text) == 2 + text.title + 2 + text.body

\* ------------------------------------------------------------- the browser
\* What happens to the browser during one tool call, in order: "launch"
\* (p.chromium.launch returned it), "close" (browser.close()), "stop" (the
\* with sync_playwright() block is left, which stops Playwright and with it
\* every browser it launched).

\* The mutant of WithPlaywright that never stops Playwright
\* (p = sync_playwright().start() without a with block).
WithoutStop(events) == events

\* with sync_playwright() as p: <events>
WithPlaywright(events) == Append(events, "stop")

\* BaiduBrowserSearchMCPServer.search: browser.close() stands after
\* page.evaluate, on the way without exception only.
BaiduBrowserLife(num_results, page) ==
    WithPlaywright(
        IF page.kind = "launch_fails" THEN <<>>
        ELSE IF page.kind \in {"context_fails", "goto_fails"}
                \/ num_results.kind # "int"
        THEN <<"launch">>
        ELSE <<"launch", "close">>)

\* visit_page: browser.close() stands in the finally of the inner try, which
\* begins at page.goto.
VisitBrowserLife(page) ==
    WithPlaywright(
        IF page.kind = "launch_fails" THEN <<>>
        ELSE IF page.kind = "context_fails" THEN <<"launch">>
        ELSE <<"launch", "close">>)

\* -------------------------------------------------------------------- state
VARIABLES
    server,   \* which server this process is
    pc,       \* "running", "done" (left the loop at end of input), "crashed"
    message,  \* python_executor's local `message`
    line,     \* the line the last iteration read
    out,      \* the replies that iteration printed on stdout
    called,   \* the tool handlers it invoked
    threw,    \* how an exception ended it
    nread,    \* lines read so far
    nout,     \* lines printed on stdout so far
    nerr,     \* lines printed on stderr so far
    tool,     \* the tool handler followed in detail, "none" before it runs
    inp,      \* what it was given: its arguments and what upstream brought
    res       \* what it did and returned

vars == <<server, pc, message, line, out, called, threw, nread, nout, nerr,
          tool, inp, res>>

\* The three variables of a tool handler followed in detail.
tvars == <<tool, inp, res>>

\* The variables of the dispatch loop.
dvars == <<server, pc, message, line, out, called, threw, nread, nout, nerr>>

NoInput == [kind |-> "none"]
NoResult == [kind |-> "none"]

NoLine == [kind |-> "none"]

\* The mutant of Flushed for print() without flush=True: the lines stay in
\* the buffer of a stdout that is a pipe.
Buffered(replies) == 0

\* print(json.dumps(response), flush=True): how many of the replies are on
\* the stream when the statement is done.
Flushed(replies) == Len(replies)

Init ==
    /\ server \in Servers
    /\ pc = "running"
    /\ message = Unset
    /\ line = NoLine
    /\ out = <<>>
    /\ called = <<>>
    /\ threw = "none"
    /\ nread = 0
    /\ nout = 0
    /\ nerr = 0
    /\ tool = "none"
    /\ inp = NoInput
    /\ res = NoResult

Iteration(l, outcome) ==
    /\ pc = "running"
    /\ nread < MaxLines
    /\ LET st == RunLoop(server, message, l, outcome)
       IN  /\ line' = l
           /\ out' = st.out
           /\ called' = st.called
           /\ threw' = st.threw
           /\ message' = st.message
           /\ pc' = st.pc
           /\ nread' = nread + 1
           /\ nout' = nout + Flushed(st.out)
           /\ nerr' = nerr + st.diag
    /\ UNCHANGED server
    /\ UNCHANGED tvars

ReadBlank == Iteration(BlankLine, "ok")

ReadMalformed == Iteration(MalformedLine, "ok")

ReadNonObject == Iteration(NonObjectLine, "ok")

ReadRequest ==
    \E l \in ObjectLines(server), outcome \in HandlerOutcomes : Iteration(l, outcome)

\* readline() returns "": break.
ReadEOF ==
    /\ pc = "running"
    /\ pc' = "done"
    /\ UNCHANGED <<server, message, line, out, called, threw, nread, nout, nerr>>
    /\ UNCHANGED tvars

Next == ReadBlank \/ ReadMalformed \/ ReadNonObject \/ ReadRequest \/ ReadEOF

Spec == Init /\ [][Next]_vars

\* ------------------------------------------------- one tool call in detail
\* A process of one of the three search and page servers handles one
\* tools/call that passed the dispatcher's checks: the handler runs on its
\* arguments and on what upstream brings, and its text goes into the reply.
ToolInit ==
    /\ server \in {"bing", "baidu", "web"}
    /\ pc = "running"
    /\ message = Unset
    /\ line = NoLine
    /\ out = <<>>
    /\ called = <<>>
    /\ threw = "none"
    /\ nread = 0
    /\ nout = 0
    /\ nerr = 0
    /\ tool = "none"
    /\ inp = NoInput
    /\ res = NoResult

Fetched(calls, op) == \E i \in 1..Len(calls) : calls[i].op = op

\* handle_request, tools/call of bing_browser_search with a query:
\* results = self.search(query, num_results); formatted = format_results(results)
CallBingSearch ==
    /\ server = "bing"
    /\ tool = "none"
    /\ \E num \in NumInputs, rss \in RssResponses, html \in HtmlResponses,
          bs4 \in BOOLEAN :
          LET r == BingSearchResults(GetNumResults(num), rss, html, bs4)
          IN  /\ inp' = [num_results |-> num, rss |-> rss,
                         html |-> IF Fetched(r.calls, "get_html") THEN html
                                  ELSE NoResponse,
                         BeautifulSoup |-> bs4]
              /\ res' = [results |-> r.results, calls |-> r.calls,
                         text |-> FormatResults(r.results)]
    /\ tool' = "bing_browser_search"
    /\ UNCHANGED dvars

\* handle_request, tools/call of baidu_browser_search with a query.
CallBaiduSearch ==
    /\ server = "baidu"
    /\ tool = "none"
    /\ \E num \in NumInputs, page \in BaiduPages :
          LET r == BaiduSearchResults(GetNumResults(num), page)
          IN  /\ inp' = [num_results |-> num,
                         page |-> IF Fetched(r.calls, "goto") THEN page
                                  ELSE IF page.kind \in {"launch_fails",
                                                         "context_fails"}
                                  THEN [kind |-> page.kind]
                                  ELSE NoResponse]
              /\ res' = [results |-> r.results, calls |-> r.calls,
                         text |-> FormatResults(r.results),
                         browser |-> BaiduBrowserLife(GetNumResults(num), page)]
    /\ tool' = "baidu_browser_search"
    /\ UNCHANGED dvars

\* handle_request, tools/call of visit_page with a url.
CallVisitPage ==
    /\ server = "web"
    /\ tool = "none"
    /\ \E page \in VisitedPages :
          /\ inp' = [page |-> page]
          /\ res' = [text |-> VisitPageText(page),
                     browser |-> VisitBrowserLife(page)]
    /\ tool' = "visit_page"
    /\ UNCHANGED dvars

ToolNext == CallBingSearch \/ CallBaiduSearch \/ CallVisitPage

ToolSpec == ToolInit /\ [][ToolNext]_vars

\* ------------------------------------------------------------------- claims
IsRequest == line.kind = "object"

IsCall == IsRequest /\ line.method = "tools/call"

NamesRegisteredTool ==
    IsCall /\ line.params = "map" /\ line.name \in ToolNames(server)

OmitsRequired ==
    /\ NamesRegisteredTool
    /\ line.arguments \in {"absent", "map"}
    /\ \E k \in Required(server, line.name) : GetArg(line, k) = "absent"

NamesUnknownTool ==
    IsCall /\ line.params = "map" /\ line.name = "no_such_tool"

OneError(code) ==
    Len(out) = 1 /\ out[1].member = "error" /\ out[1].code = code

\* C1: in every server, a (non-blank) line that is not valid JSON gets exactly
\* one reply, an error with the parse-error code -32700, and the loop goes on.
C1_MalformedGetsParseError ==
    line.kind = "malformed" => OneError(ParseError) /\ pc # "crashed"

\* C2: in every server, a tools/call that names a registered tool and omits
\* one of its required parameters gets the error -32602, and no tool handler
\* is invoked for it.
C2_MissingRequiredRejected ==
    OmitsRequired => OneError(InvalidParams) /\ called = <<>>

\* C3: in every server, a notifications/initialized request writes no line on
\* stdout.
C3_NotificationSilent ==
    (IsRequest /\ line.method = "notifications/initialized") => out = <<>>

\* C4: in every server, a tools/call whose params.name is no registered tool
\* gets an error member of code -32601 that carries the id of the request.
C4_UnknownToolError ==
    NamesUnknownTool => OneError(MethodNotFound) /\ out[1].id = line.id

\* C5: in every server, a request whose method is none of initialize,
\* tools/list, tools/call, notifications/initialized (or is missing) gets an
\* error member of code -32601.
C5_UnknownMethodError ==
    (IsRequest /\ line.method \notin Methods) => OneError(MethodNotFound)

\* C6: every reply to a request that parsed as a JSON object carries the id
\* of that request, the -32603 replies included.
C6_ReplyCarriesRequestId ==
    IsRequest => \A i \in 1..Len(out) : out[i].id = line.id

\* C7: the replies to a line depend on that line alone: whatever was read
\* before, the loop answers the next line as a fresh process would.
C7_NoCrossRequestMemory ==
    pc = "running" =>
        \A l \in Lines(server), o \in HandlerOutcomes :
            RunLoop(server, message, l, o).out = RunLoop(server, Unset, l, o).out

\* C8 as stated: every exception raised while a tools/call is handled, inside
\* a tool handler or on the way to it, becomes one -32603 error reply (never
\* a success envelope), and the loop goes on.
C8_EveryExceptionIsInternalError ==
    (IsCall /\ threw # "none") => OneError(InternalError) /\ pc # "crashed"

\* C8 as amended: while a tools/call is handled, an exception that leaves
\* handle_request / handle_message is raised before any tool handler runs, is
\* caught by the loop and becomes one -32603 error reply; an exception raised
\* inside a tool handler is caught by that handler and reported as text in a
\* result envelope with the id of the request; in neither case does the loop
\* end.
C8_ExceptionsDuringCall ==
    IsCall =>
        /\ pc # "crashed"
        /\ threw \in {"none", "handler", "loop"}
        /\ threw = "loop" => OneError(InternalError) /\ called = <<>>
        /\ threw = "handler" =>
              /\ Len(called) = 1
              /\ Len(out) = 1
              /\ out[1].member = "result"
              /\ out[1].id = line.id

C8_Witness ==
    /\ IsCall
    /\ threw = "handler"
    /\ Len(called) = 1
    /\ Len(out) = 1
    /\ out[1].member = "result"

\* C9: the loop of every server ends only when a read returns end of input:
\* no content of a line makes it exit.
C9_LoopEndsOnlyAtEOF ==
    pc # "running" => pc = "done"

\* C10: every (non-blank) input line gets exactly one reply, holding exactly
\* one of result and error, except a notifications/initialized request, which
\* gets none.
C10_OneReplyPerLine ==
    line.kind \notin {"none", "blank"} =>
        IF IsRequest /\ line.method = "notifications/initialized"
        THEN out = <<>>
        ELSE Len(out) = 1 /\ out[1].member \in {"result", "error"}

\* ------------------------------------------ claims about one tool call
IsBing == tool = "bing_browser_search"

IsBaidu == tool = "baidu_browser_search"

IsSearch == IsBing \/ IsBaidu

IsVisit == tool = "visit_page"

\* The results are result items: not the empty list, not the error list.
IsItems(results) == results # <<>> /\ "error" \notin DOMAIN results[1]

IsError(results) == Len(results) = 1 /\ "error" \in DOMAIN results[1]

\* What the claims say num_results comes to: the integer brought into
\* MinCount..MaxCount, DefaultCount when it is missing or no integer.
Coerced(num) ==
    IF num.kind # "int" THEN DefaultCount
    ELSE IF num.val < MinCount THEN MinCount
    ELSE IF num.val > MaxCount THEN MaxCount
    ELSE num.val

\* C11: in the Bing and the Baidu search alike, every upstream request and
\* every extraction gets num_results coerced to an integer and clamped to
\* 1..50 (0 and -5 become 1, 1000 becomes 50), and a value that is no
\* integer is replaced by 20 and the search goes on instead of ending in an
\* error outcome.
C11_CountCoercedAndClamped ==
    IsSearch =>
        /\ \A i \in 1..Len(res.calls) : res.calls[i].n = Coerced(inp.num_results)
        /\ IsBing \/ inp.page.kind \notin {"launch_fails", "context_fails"} =>
              res.calls # <<>>

\* C12: the result items of every strategy (the Bing feed, document and
\* pattern extraction, the Baidu extraction) carry index 1, 2, ..., N in
\* order, without a gap.
C12_IndexesDense ==
    IsSearch /\ IsItems(res.results) =>
        \A i \in 1..Len(res.results) : res.results[i].index = i

\* The count the Bing search works with in this call.
BingCountOf == BingCount(GetNumResults(inp.num_results))

\* The Bing search ran the feed and the document (or pattern) extraction on
\* a page without block marker, and neither found a usable item.
BingAllEmpty ==
    /\ IsBing
    /\ inp.rss.kind # "fails"
    /\ ParseRss(inp.rss, BingCountOf) = <<>>
    /\ inp.html.kind = "page"
    /\ Lower(inp.html.marker) # "captcha"
    /\ IF inp.BeautifulSoup THEN ParseBs4(inp.html, BingCountOf) = <<>>
       ELSE ParseRegex(inp.html, BingCountOf) = <<>>

\* The Baidu search ran its extraction on the rendered page and found no
\* usable item.
BaiduAllEmpty ==
    /\ IsBaidu
    /\ inp.page.kind = "page"
    /\ EvaluateLoop(inp.page.els, 1, <<>>, GetNumResults(inp.num_results).val) = <<>>

WellFormed(items) ==
    \A i \in 1..Len(items) : items[i].title > 0 /\ items[i].link # 0

\* The head lines of the blocks of a reply text.
Heads(text) ==
    LET IsHead(l) == l.k = "head"
    IN  SelectSeq(text, IsHead)

\* The reply text holds k blocks, headed [1] .. [k], of the first k items.
HasBlocks(text, items, k) ==
    /\ Len(Heads(text)) = k
    /\ \A i \in 1..Len(Heads(text)) :
          /\ i <= Len(items)
          /\ Heads(text)[i].index = i
          /\ Heads(text)[i].title = items[i].title

\* C14 as stated: a search with num_results = n against a feed of M
\* well-formed items gives a reply text of exactly min(M, n) blocks, headed
\* [1] .. [min(M, n)] in feed order.
C14_BlocksAreMinOfFeedAndN ==
    IsBing /\ inp.num_results.kind = "int" /\ inp.rss.kind = "channel"
           /\ WellFormed(inp.rss.items) =>
        HasBlocks(res.text, inp.rss.items,
                  Min(Len(inp.rss.items), inp.num_results.val))

\* C14 as amended: a search with num_results = n against a feed of M >= 1
\* well-formed items gives a reply text of exactly min(M, c) blocks, headed
\* [1] .. [min(M, c)] in feed order, where c is n brought into 1..50.
C14_BlocksAreMinOfFeedAndClamped ==
    IsBing /\ inp.num_results.kind = "int" /\ inp.rss.kind = "channel"
           /\ WellFormed(inp.rss.items) /\ Len(inp.rss.items) >= 1 =>
        HasBlocks(res.text, inp.rss.items,
                  Min(Len(inp.rss.items), Coerced(inp.num_results)))

\* The feed holds more well-formed items than were asked for.
C14_Witness ==
    /\ IsBing
    /\ inp.num_results = [kind |-> "int", val |-> 2]
    /\ inp.rss.kind = "channel"
    /\ WellFormed(inp.rss.items)
    /\ Len(inp.rss.items) = 3
    /\ Len(Heads(res.text)) = 2

\* The block of one result item, as the formatter's contract words it.
Block(r) ==
    <<[k |-> "head", index |-> r.index, title |-> r.title],
      [k |-> "link", v |-> r.link]>>
    \o (IF r.source = 0 THEN <<>> ELSE <<[k |-> "source", v |-> r.source]>>)
    \o (IF r.snippet = 0 THEN <<>> ELSE <<[k |-> "snippet", v |-> r.snippet]>>)
    \o <<[k |-> "blank"]>>

RECURSIVE Blocks(_)
Blocks(results) ==
    IF results = <<>> THEN <<>>
    ELSE Block(Head(results)) \o Blocks(Tail(results))

\* C15: format_results gives the error record's message unchanged, the fixed
\* "no results" sentinel for the empty sequence, and for result items their
\* blocks in order: head line, link line, source line exactly when the source
\* is not empty, snippet line exactly when the snippet is not empty, and one
\* blank line.
C15_FormatByOutcome ==
    IsSearch =>
        IF res.results = <<>> THEN res.text = <<[k |-> "no_results"]>>
        ELSE IF "error" \in DOMAIN res.results[1]
        THEN res.text = <<[k |-> "message", v |-> res.results[1].error]>>
        ELSE res.text = Blocks(res.results)

\* Two items were formatted, one without source, one without snippet.
C15_Witness ==
    /\ IsSearch
    /\ IsItems(res.results)
    /\ \E i, j \in 1..Len(res.results) :
          /\ i < j
          /\ res.results[i].source = 0 /\ res.results[i].snippet # 0
          /\ res.results[j].source # 0 /\ res.results[j].snippet = 0
    /\ Len(Heads(res.text)) = Len(res.results)

\* visit_page returned the text of a page, not an error text.
Visited == IsVisit /\ res.text.kind = "page"

\* C16 as stated: the text of a successful visit_page begins with the title
\* heading and is truncated to the budget of 15000 characters: no successful
\* visit returns a text longer than the budget.
C16_TextWithinBudget ==
    Visited =>
        /\ res.text.title = inp.page.title
        /\ PageTextLen(res.text) <= MaxChars

\* C16 as amended: the text of a successful visit_page is the title heading
\* followed by the converted page text truncated to the budget of 15000
\* characters: no successful visit returns more than the heading and 15000
\* characters of page text.
C16_BodyWithinBudget ==
    Visited =>
        /\ res.text.title = inp.page.title
        /\ res.text.body <= MaxChars
        /\ res.text.body = MaxChars \/ res.text.body \in {inp.page.summary, inp.page.content}
        /\ PageTextLen(res.text) <= 4 + inp.page.title + MaxChars

\* A page whose converted text is longer than the budget was cut to it.
C16_Witness ==
    /\ Visited
    /\ inp.page.summary > MaxChars
    /\ res.text.body = MaxChars
    /\ PageTextLen(res.text) > MaxChars

\* The operations a search ran, in order.
Ops(calls) == [i \in 1..Len(calls) |-> calls[i].op]

\* The feed came and holds an item with a title and a link.
FeedHasItem ==
    /\ IsBing
    /\ inp.rss.kind = "channel"
    /\ \E i \in 1..Len(inp.rss.items) :
          inp.rss.items[i].title > 0 /\ inp.rss.items[i].link # 0

\* C17: when the Bing feed parses and yields at least one item, search
\* returns those items and neither requests the result page nor runs
\* _parse_bs4 or _parse_regex.
C17_FeedWinsAlone ==
    FeedHasItem =>
        /\ Ops(res.calls) = <<"get_rss", "parse_rss">>
        /\ inp.html = NoResponse
        /\ IsItems(res.results)
        /\ \A i \in 1..Len(res.results) :
              \E j \in 1..Len(inp.rss.items) :
                  /\ res.results[i].title = inp.rss.items[j].title
                  /\ res.results[i].link = inp.rss.items[j].link

\* The feed's only usable item stands behind an unusable one.
C17_Witness ==
    /\ FeedHasItem
    /\ Len(inp.rss.items) >= 2
    /\ inp.rss.items[1].link = 0
    /\ IsItems(res.results)
    /\ res.results[1].title = inp.rss.items[2].title
    /\ Len(res.calls) = 2

\* C18: when the Bing feed request fails (network error, timeout, HTTP
\* status), search goes on to the document strategy; an error outcome comes
\* back only when the result page failed as well or held the block marker.
C18_FeedFailureFallsThrough ==
    IsBing =>
        /\ inp.rss.kind = "fails" => Fetched(res.calls, "get_html")
        /\ IsError(res.results) =>
              /\ inp.html.kind \in {"fails", "page"}
              /\ inp.html.kind = "page" => res.results = <<ErrorRecord("captcha")>>

\* C19: a Bing feed that is no XML, or holds no channel, gives the empty
\* result of the feed strategy, not an error outcome, and the document
\* strategy is attempted next.
C19_BadFeedIsEmpty ==
    IsBing /\ inp.rss.kind \in {"unparsable", "nochannel"} =>
        /\ ParseRss(inp.rss, BingCountOf) = <<>>
        /\ Len(res.calls) >= 3
        /\ SubSeq(Ops(res.calls), 1, 3) = <<"get_rss", "parse_rss", "get_html">>
        /\ inp.html.kind \in {"fails", "page"}
        /\ IsError(res.results) =>
              inp.html.kind = "fails" \/ res.results = <<ErrorRecord("captcha")>>

\* After a feed that is no XML the result page gave the items.
C19_Witness ==
    /\ IsBing
    /\ inp.rss.kind = "unparsable"
    /\ Fetched(res.calls, "parse_bs4")
    /\ IsItems(res.results)

\* The result page holds the word captcha in some letter case.
HasMarker ==
    /\ IsBing
    /\ inp.html.kind = "page"
    /\ inp.html.marker \in {"captcha", "CAPTCHA"}

\* C20: a Bing result page that holds "captcha" in any letter case gives the
\* blocked-error record, and neither _parse_bs4 nor _parse_regex runs, even
\* when the page holds result containers.
C20_CaptchaStopsExtraction ==
    HasMarker =>
        /\ res.results = <<ErrorRecord("captcha")>>
        /\ res.text = <<[k |-> "message", v |-> "captcha"]>>
        /\ ~Fetched(res.calls, "parse_bs4")
        /\ ~Fetched(res.calls, "parse_regex")

\* The page with the marker in capitals holds a container with a result.
C20_Witness ==
    /\ HasMarker
    /\ inp.html.marker = "CAPTCHA"
    /\ ParseRegex(inp.html, BingCountOf) # <<>>
    /\ IsError(res.results)

\* C21: every item of a result sequence, whichever strategy made it (the
\* Bing feed, document and pattern extraction, the Baidu extraction), has a
\* non-empty title and a non-empty link, and holds a snippet and a source,
\* which may be empty.
C21_ItemsHaveTitleAndLink ==
    IsSearch /\ IsItems(res.results) =>
        \A i \in 1..Len(res.results) :
            /\ {"title", "link", "snippet", "source"} \subseteq DOMAIN res.results[i]
            /\ res.results[i].title # 0
            /\ res.results[i].link # 0

\* The containers of a Bing result page that hold a usable title and link.
UsableLis(lis) ==
    { i \in 1..Len(lis) : lis[i].h2a /\ lis[i].title > 0 /\ lis[i].href # 0 }

\* The result elements of a Baidu page that hold a usable title and link.
UsableEls(els) ==
    { i \in 1..Len(els) : els[i].titleElement /\ els[i].title > 0 /\ els[i].href # 0 }

\* C22: in the document extraction (Bing _parse_bs4, the Baidu page query) a
\* container without a usable title and link is skipped and not counted: a
\* page with at least `count` usable containers gives `count` items, however
\* many unusable containers stand before them.
C22_SkippedNotCounted ==
    /\ IsBing /\ Fetched(res.calls, "parse_bs4")
              /\ Cardinality(UsableLis(inp.html.lis)) >= BingCountOf =>
           Len(res.results) = BingCountOf
    /\ IsBaidu /\ Fetched(res.calls, "evaluate")
               /\ GetNumResults(inp.num_results).val >= 1
               /\ Cardinality(UsableEls(inp.page.els))
                    >= GetNumResults(inp.num_results).val =>
           Len(res.results) = GetNumResults(inp.num_results).val

RECURSIVE IsSubseq(_, _)
\* a is b with some elements left out.
IsSubseq(a, b) ==
    IF a = <<>> THEN TRUE
    ELSE IF b = <<>> THEN FALSE
    ELSE IF Head(a) = Head(b) THEN IsSubseq(Tail(a), Tail(b))
    ELSE IsSubseq(a, Tail(b))

\* The links of the source entries the returned items were made from: the
\* containers of the result page when a page extraction ran, the feed items
\* otherwise, the result elements in Baidu.
SourceLinks ==
    IF IsBaidu THEN [i \in 1..Len(inp.page.els) |-> inp.page.els[i].href]
    ELSE IF Fetched(res.calls, "parse_bs4") \/ Fetched(res.calls, "parse_regex")
    THEN [i \in 1..Len(inp.html.lis) |-> inp.html.lis[i].href]
    ELSE [i \in 1..Len(inp.rss.items) |-> inp.rss.items[i].link]

\* The link lines of a reply text.
LinkLines(text) ==
    LET IsLink(l) == l.k = "link"
    IN  SelectSeq(text, IsLink)

\* C23: the items of a result sequence stand in the order of their source
\* entries (feed items, page containers), and the formatter writes one block
\* per item in that order: nothing between extraction and reply text
\* reorders, duplicates or drops an item.
C23_OrderKept ==
    IsSearch /\ IsItems(res.results) =>
        /\ IsSubseq([i \in 1..Len(res.results) |-> res.results[i].link], SourceLinks)
        /\ Len(Heads(res.text)) = Len(res.results)
        /\ Len(LinkLines(res.text)) = Len(res.results)
        /\ \A i \in 1..Len(res.results) :
              /\ Heads(res.text)[i].title = res.results[i].title
              /\ Heads(res.text)[i].index = res.results[i].index
              /\ LinkLines(res.text)[i].v = res.results[i].link

\* Two feed items came back, with an unusable one left out between them.
C23_Witness ==
    /\ IsBing
    /\ Ops(res.calls) = <<"get_rss", "parse_rss">>
    /\ Len(inp.rss.items) = 3
    /\ inp.rss.items[2].link = 0
    /\ Len(res.results) = 2
    /\ LinkLines(res.text)[2].v = inp.rss.items[3].link

\* How many times a search ran an operation.
Times(calls, op) == Cardinality({ i \in 1..Len(calls) : calls[i].op = op })

\* C24: in the Bing document stage exactly one extraction runs: _parse_regex
\* only when BeautifulSoup is unavailable, and never when it is available,
\* even if _parse_bs4 returned no item.
C24_OneDocumentStrategy ==
    IsBing /\ inp.html.kind = "page" /\ Lower(inp.html.marker) # "captcha" =>
        /\ Times(res.calls, "parse_bs4") + Times(res.calls, "parse_regex") = 1
        /\ Fetched(res.calls, "parse_regex") <=> ~inp.BeautifulSoup
        /\ Fetched(res.calls, "parse_bs4") <=> inp.BeautifulSoup

\* _parse_bs4 found nothing on a page where _parse_regex would have made an item.
C24_Witness ==
    /\ IsBing
    /\ inp.BeautifulSoup
    /\ Fetched(res.calls, "parse_bs4")
    /\ res.results = <<>>
    /\ ParseRegex(inp.html, BingCountOf) # <<>>

\* The first MaxChars characters of a text of length n.
Cut(n) == IF n > MaxChars THEN MaxChars ELSE n

\* C27: visit_page uses the text converted from the readability fragment
\* when it is at least 200 characters long and the text converted from the
\* full markup otherwise; the full markup is converted exactly when the
\* fragment's text is shorter than 200.
C27_FullPageBelowThreshold ==
    Visited =>
        /\ inp.page.summary >= MinUseful =>
              /\ res.text.converted = <<"summary">>
              /\ res.text.body = Cut(inp.page.summary)
        /\ inp.page.summary < MinUseful =>
              /\ res.text.converted = <<"summary", "content">>
              /\ res.text.body = Cut(inp.page.content)

\* A fragment of exactly 200 characters was kept although the full page is longer.
C27_Witness ==
    /\ Visited
    /\ inp.page.summary = MinUseful
    /\ inp.page.content > MinUseful
    /\ res.text.body = MinUseful
    /\ res.text.converted = <<"summary">>

\* Every browser that was launched was closed or stopped afterwards.
Released(events) ==
    \A i \in 1..Len(events) :
        events[i] = "launch" =>
            \E j \in (i + 1)..Len(events) : events[j] \in {"close", "stop"}

\* C26: every browser launched during a tools/call (Baidu search,
\* visit_page) is released before the handler returns and the reply is
\* written, on every path: extraction succeeded, navigation failed or timed
\* out, creating the context or injecting the cookies failed.
C26_BrowserReleased ==
    IsBaidu \/ IsVisit =>
        /\ Released(res.browser)
        /\ res.browser # <<>>
        /\ res.browser[Len(res.browser)] = "stop"

\* Creating the context failed after the launch: browser.close() was not
\* reached, leaving the with block released the browser.
C26_Witness ==
    /\ IsVisit
    /\ inp.page.kind = "context_fails"
    /\ res.browser = <<"launch", "stop">>

\* ------------------------------------- more claims about the dispatch loop
\* C28: every tools/call request writes exactly one diagnostic line on
\* stderr, no other line does, and stdout gets the replies and nothing else:
\* the stderr lines count the tools/call requests and the stdout lines the
\* replies.
C28_OneDiagnosticPerCall ==
    [][nread' = nread + 1 =>
          /\ nerr' = nerr + (IF line'.kind = "object" /\ line'.method = "tools/call"
                             THEN 1 ELSE 0)
          /\ nout' = nout + Len(out')]_vars

\* C25: the loop handles one line at a time: the replies of a line are on
\* the reply stream, and the handlers it invoked have returned, when the
\* iteration ends and the next line is read, so that the replies stand on
\* the stream in the order of the lines that caused them.
C25_ReplyWrittenBeforeNextRead ==
    [][nread' = nread + 1 =>
          /\ pc = "running"
          /\ nout' = nout + Len(out')
          /\ Len(called') <= 1
          /\ line'.kind # "object" \/ line'.method # "tools/call" => called' = <<>>]_vars

\* All lines read were answered, the last after a tool handler ran.
C25_Witness ==
    /\ nread = MaxLines
    /\ nout = nread
    /\ Len(called) = 1
    /\ Len(out) = 1

IsSearchOrWeb == server \in {"bing", "baidu", "web"}

\* A tools/call of the server's tool whose required argument is there, but
\* falsy ("", 0, false, null, []).
FalsyRequired ==
    /\ IsSearchOrWeb
    /\ NamesRegisteredTool
    /\ line.arguments = "map"
    /\ \E k \in Required(server, line.name) : line.vals[k] = "falsy"

\* C31: in the Bing, Baidu and web_browser servers a tools/call whose
\* required argument is present but falsy is treated like one without the
\* argument: the reply is the error -32602 and no tool handler is invoked.
C31_FalsyIsMissing ==
    FalsyRequired =>
        /\ out = <<Reply(line.id, "error", InvalidParams, "missing_parameter")>>
        /\ called = <<>>
        /\ threw = "none"
        /\ pc # "crashed"

\* A falsy url was rejected by web_browser, with the id of the request.
C31_Witness ==
    /\ FalsyRequired
    /\ server = "web"
    /\ line.id # NoId
    /\ OneError(InvalidParams)
    /\ out[1].id = line.id
    /\ called = <<>>

\* The one reply of the loop's except clause, and nothing else done.
InternalErrorOnly ==
    /\ out = <<Reply(NoId, "error", InternalError, "internal")>>
    /\ called = <<>>
    /\ pc # "crashed"

\* C32 as stated: in the Bing, Baidu and web_browser servers a line of valid
\* JSON that is no object, or a tools/call whose params or arguments is no
\* mapping, gets exactly one error reply, with code -32603 and id null,
\* invokes no tool handler and leaves the loop running.
C32_NonMappingIsInternalError ==
    IsSearchOrWeb /\ (\/ line.kind = "nonobject"
                      \/ IsCall /\ line.params = "nonmap"
                      \/ IsCall /\ line.arguments = "nonmap") =>
        InternalErrorOnly

\* C32 as amended: the same for a line that is no object, for a tools/call
\* whose params is no mapping, and for a tools/call whose arguments is no
\* mapping while params.name is the server's tool; a tools/call that names
\* no tool of the server gets the error -32601 with the id of the request,
\* whatever its arguments are.
C32_NonMappingReadIsInternalError ==
    /\ IsSearchOrWeb /\ (\/ line.kind = "nonobject"
                         \/ IsCall /\ line.params = "nonmap"
                         \/ NamesRegisteredTool /\ line.arguments = "nonmap") =>
          InternalErrorOnly
    /\ IsSearchOrWeb /\ IsCall /\ line.params = "map"
                     /\ line.name \notin ToolNames(server) =>
          /\ out = <<Reply(line.id, "error", MethodNotFound, "unknown_tool")>>
          /\ called = <<>>
          /\ pc # "crashed"

\* A tools/call of the server's tool with arguments that are no mapping was
\* answered with id null although the request had an id.
C32_Witness ==
    /\ IsSearchOrWeb
    /\ NamesRegisteredTool
    /\ line.arguments = "nonmap"
    /\ line.id # NoId
    /\ InternalErrorOnly
    /\ pc = "running"

====
